---------------------------- MODULE Spec2Model ----------------------------
(***************************************************************************)
(* LiveCheck application (faust/livecheck/app.py): the case registry, the  *)
(* stream sensor and produce hook that thread the current test through     *)
(* message headers, and the two agents (signal bus, pending tests).        *)
(*                                                                         *)
(* Python values are modelled as follows.  str is a TLA+ string.  An       *)
(* Optional value is a sequence of length 0 (None) or 1 (the value).  A    *)
(* header list is a sequence of <<key, value>> pairs, a value being        *)
(* <<"str", s>> or <<"bytes", s>>.                                         *)
(***************************************************************************)
EXTENDS Integers, Sequences, FiniteSets, TLC

VARIABLES
    conf_origin,        \* self.conf.origin
    cases,              \* self.cases: case name -> registered case
    prepared,           \* outcome of the latest _prepare_case_name call
    registered,         \* outcome of the latest case() registration
    current_test_stack, \* locals.current_test_stack: path -> stack of tests
    stream_current_test,\* stream -> the stream's current_test attribute
    stream_event,       \* stream -> the event between its in and out callbacks
    stream_pc,          \* stream -> "idle" | "processing" | "done"
    stack_ops,          \* stream -> pushes and pops made for its latest event
    produced,           \* outcome of the latest on_produce_message signal
    bus,                \* messages waiting on the bus channel, oldest first
    pending_tests,      \* messages waiting on the pending-tests channel
    emitted,            \* every signal event message sent to the bus so far
    sent,               \* every test execution message sent so far
    bus_inflight,       \* resolver calls bus actors are awaiting
    bus_crashed,        \* bus actor -> the error that ended its loop, if any
    test_inflight,      \* case executions test actors are awaiting
    test_crashed,       \* test actor -> the error that ended its loop, if any
    _resolved_signals,  \* self._resolved_signals: key -> signal event
    resolver_called,    \* offsets of the events resolve_signal was called for
    resolver_returned,  \* offsets of the events resolve_signal returned for
    executed,           \* ids of the tests case.execute was called for
    outcome,            \* test id -> how its execution ended
    send_reports,       \* self.send_reports
    reports             \* messages sent to the reports topic, oldest first

regVars == <<conf_origin, cases, prepared, registered>>
streamVars == <<stream_current_test, stream_event, stream_pc, stack_ops,
                produced>>
ctxVars == <<current_test_stack, streamVars>>
chanVars == <<bus, pending_tests, emitted, sent>>
busVars == <<bus_inflight, bus_crashed, resolver_called, resolver_returned>>
testVars == <<test_inflight, test_crashed, executed, outcome>>
dispVars == <<chanVars, busVars, testVars, _resolved_signals>>
repVars == <<send_reports, reports>>
vars == <<regVars, ctxVars, dispVars, repVars>>

None == <<>>
Some(x) == <<x>>

\* Python truthiness of an Optional[str]: None and '' are falsy.
Truthy(o) == o # None /\ o[1] # ""

----------------------------------------------------------------------------
(* Bounds of the model.                                                    *)

\* Largest number of annotated fields of a case class.
MaxFields == 2

\* Number of instrumented streams.
NumStreams == 2

\* The bus_concurrency and test_concurrency the application is constructed
\* with (the class defaults are 30 and 100).
bus_concurrency == 2
test_concurrency == 2

\* Largest number of signal events sent to the bus.
MaxEvents == 2

\* Largest number of test executions sent to the pending-tests channel.
MaxTests == 2

\* Largest number of reports posted.
MaxReports == 3

----------------------------------------------------------------------------
(* Name rewriting.                                                         *)

MainPrefix == "__main__."

startswith(s, p) == Len(s) >= Len(p) /\ SubSeq(s, 1, Len(p)) = p

\* name[n:] for 0 <= n
SliceFrom(s, n) == SubSeq(s, n + 1, Len(s))

Returned(v) == [raised |-> "", value |-> v]
Raised(e) == [raised |-> e, value |-> ""]

\* A mutation of _prepare_case_name: the origin replaces the whole prefix,
\* dot included.
_prepare_case_name_dropdot(origin, name) ==
    IF startswith(name, MainPrefix)
    THEN IF ~Truthy(origin)
         THEN Raised("RuntimeError")
         ELSE Returned(origin[1] \o SliceFrom(name, 9))
    ELSE Returned(name)

_prepare_case_name(origin, name) ==
    IF startswith(name, MainPrefix)
    THEN IF ~Truthy(origin)
         THEN Raised("RuntimeError")
         ELSE Returned(origin[1] \o SliceFrom(name, 8))
    ELSE Returned(name)

\* Origins an application is configured with.
Origins == {None, Some(""), Some("pkg.mod"), Some("app")}

\* Names handed to _prepare_case_name: with the placeholder prefix, with
\* parts of it, with it elsewhere than at the start, and without it.
NamePrefixes == {"", "__main__.", "__main__", "_main__.", "x.__main__.",
                 "pkg.mod.", "__main__.__main__."}
NameSuffixes == {"", "Foo", "Foo.Bar", "orders", "__main__.Foo"}
Names == {p \o x : p \in NamePrefixes, x \in NameSuffixes}


----------------------------------------------------------------------------
(* Test executions and their headers.                                      *)

TestId(n) == "t" \o ToString(n)

TestExecution(id, case_name) == [id |-> id, case_name |-> case_name]

Tests == {TestExecution(TestId(n), "orders") : n \in 1..MaxTests}

HEADER_TEST_ID == "LiveCheck-Test-Id"
HEADER_TEST_NAME == "LiveCheck-Test-Name"

Str(s) == <<"str", s>>
Bytes(s) == <<"bytes", s>>

\* mode.utils.compat.want_bytes: str is encoded, bytes are kept.
want_bytes(v) == IF v[1] = "str" THEN Bytes(v[2]) ELSE v

\* TestExecution.as_headers(): the items of the header mapping, in order.
as_headers(test) ==
    <<  <<HEADER_TEST_ID, Str(test.id)>>,
        <<HEADER_TEST_NAME, Str(test.case_name)>>  >>

\* The value a header list holds for a key (the last one, as dict(headers)
\* keeps it), as an Optional.
HeaderValue(headers, key) ==
    LET hit == {i \in DOMAIN headers : headers[i][1] = key}
    IN IF hit = {} THEN None
       ELSE Some(headers[CHOOSE i \in hit : \A j \in hit : j <= i][2])

\* TestExecution.from_headers(headers): the test the headers name, or None.
from_headers(headers) ==
    LET id == HeaderValue(headers, HEADER_TEST_ID)
        name == HeaderValue(headers, HEADER_TEST_NAME)
    IN IF id = None \/ name = None THEN None
       ELSE Some(TestExecution(id[1][2], name[1][2]))

\* Headers a message carries that are not LiveCheck's.
OtherHeader == <<"trace", Bytes("abc")>>
OtherHeader2 == <<"tenant", Bytes("eu")>>

\* The header list of a message produced under test.
StampedHeaders(test) ==
    [i \in 1..Len(as_headers(test)) |->
        <<as_headers(test)[i][1], want_bytes(as_headers(test)[i][2])>>]

----------------------------------------------------------------------------
(* The execution context: locals.current_test_stack and current_test().    *)

Streams == 1..NumStreams

\* The execution path (task) a stream's callbacks run on.
StreamPath(s) == s

\* The execution path (task) an actor of the test agent runs on.
ActorPath(a) == NumStreams + a

Paths ==
    {StreamPath(s) : s \in Streams}
    \cup {ActorPath(a) : a \in 1..test_concurrency}

\* LocalStack.push_without_automatic_cleanup
Push(stack, p, test) == [stack EXCEPT ![p] = Append(@, test)]

\* LocalStack.pop
Pop(stack, p) ==
    [stack EXCEPT ![p] = IF @ = <<>> THEN @ ELSE SubSeq(@, 1, Len(@) - 1)]

\* locals.current_test(): the top of the path's stack, or None.
current_test(stack, p) ==
    IF stack[p] = <<>> THEN None ELSE Some(stack[p][Len(stack[p])])

----------------------------------------------------------------------------
(* LiveCheckSensor.                                                        *)

\* Header lists of inbound events: with and without a test identity.
EventHeaders ==
    {<<>>, <<OtherHeader>>}
    \cup {<<OtherHeader>> \o StampedHeaders(t) : t \in Tests}

NoOps == [push |-> 0, pop |-> 0, depth_before |-> 0]

\* A mutation of on_stream_event_out: the stream attribute is not cleared.
on_stream_event_out_keeps_attr(s) ==
    /\ stream_pc[s] = "processing"
    /\ LET has_active_test == stream_current_test[s]
       IN IF has_active_test # None
          THEN /\ UNCHANGED stream_current_test
               /\ current_test_stack' = Pop(current_test_stack, StreamPath(s))
               /\ stack_ops' = [stack_ops EXCEPT ![s].pop = @ + 1]
          ELSE UNCHANGED <<stream_current_test, current_test_stack, stack_ops>>
    /\ stream_pc' = [stream_pc EXCEPT ![s] = "done"]
    /\ UNCHANGED <<stream_event, produced>>

\* on_stream_event_in(tp, offset, stream, event)
on_stream_event_in(s, headers) ==
    /\ stream_pc[s] # "processing"
    /\ LET test == from_headers(headers)
       IN IF test # None
          THEN /\ stream_current_test' = [stream_current_test EXCEPT ![s] = test]
               /\ current_test_stack' =
                      Push(current_test_stack, StreamPath(s), test[1])
               /\ stack_ops' = [stack_ops EXCEPT ![s] =
                      [push |-> 1, pop |-> 0,
                       depth_before |-> Len(current_test_stack[StreamPath(s)])]]
          ELSE /\ UNCHANGED <<stream_current_test, current_test_stack>>
               /\ stack_ops' = [stack_ops EXCEPT ![s] =
                      [push |-> 0, pop |-> 0,
                       depth_before |-> Len(current_test_stack[StreamPath(s)])]]
    /\ stream_event' = [stream_event EXCEPT ![s] = Some(headers)]
    /\ stream_pc' = [stream_pc EXCEPT ![s] = "processing"]
    /\ UNCHANGED produced

\* A mutation of on_stream_event_out: the current test is one slot shared by
\* every path, and the callback empties it.
on_stream_event_out_shared_slot(s) ==
    /\ stream_pc[s] = "processing"
    /\ LET has_active_test == stream_current_test[s]
       IN IF has_active_test # None
          THEN /\ stream_current_test' = [stream_current_test EXCEPT ![s] = None]
               /\ current_test_stack' = [p \in DOMAIN current_test_stack |-> <<>>]
               /\ stack_ops' = [stack_ops EXCEPT ![s].pop = @ + 1]
          ELSE UNCHANGED <<stream_current_test, current_test_stack, stack_ops>>
    /\ stream_pc' = [stream_pc EXCEPT ![s] = "done"]
    /\ UNCHANGED <<stream_event, produced>>

\* on_stream_event_out(tp, offset, stream, event)
on_stream_event_out(s) ==
    /\ stream_pc[s] = "processing"
    /\ LET has_active_test == stream_current_test[s]
       IN IF has_active_test # None
          THEN /\ stream_current_test' = [stream_current_test EXCEPT ![s] = None]
               /\ current_test_stack' = Pop(current_test_stack, StreamPath(s))
               /\ stack_ops' = [stack_ops EXCEPT ![s].pop = @ + 1]
          ELSE UNCHANGED <<stream_current_test, current_test_stack, stack_ops>>
    /\ stream_pc' = [stream_pc EXCEPT ![s] = "done"]
    /\ UNCHANGED <<stream_event, produced>>

----------------------------------------------------------------------------
(* The produce hook.                                                       *)

\* The headers argument of a produce request: None, or a header list.
ProduceHeaders ==
    {None, Some(<<>>), Some(<<OtherHeader>>), Some(<<OtherHeader, OtherHeader2>>)}

\* A mutation of attach_test_headers: the test headers are put first.
attach_test_headers_prepend(test, headers) ==
    IF test # None
    THEN IF headers = None
         THEN [raised |-> "TypeError", headers |-> headers]
         ELSE [raised |-> "",
               headers |-> Some(StampedHeaders(test[1]) \o headers[1])]
    ELSE [raised |-> "", headers |-> headers]

\* A mutation of attach_test_headers: the header list is checked before the
\* current test is.
attach_test_headers_checks_first(test, headers) ==
    IF headers = None
    THEN [raised |-> "TypeError", headers |-> headers]
    ELSE IF test # None
         THEN [raised |-> "",
               headers |-> Some(headers[1] \o StampedHeaders(test[1]))]
         ELSE [raised |-> "", headers |-> headers]

\* A mutation of attach_test_headers: a request without a header list is
\* passed over.
attach_test_headers_skips_missing(test, headers) ==
    IF test # None /\ headers # None
    THEN [raised |-> "",
          headers |-> Some(headers[1] \o StampedHeaders(test[1]))]
    ELSE [raised |-> "", headers |-> headers]

\* The body of on_produce_attach_test_headers for test = current_test():
\* whether it raised, and the header list afterwards.
attach_test_headers(test, headers) ==
    IF test # None
    THEN IF headers = None
         THEN [raised |-> "TypeError", headers |-> headers]
         ELSE [raised |-> "",
               headers |-> Some(headers[1] \o StampedHeaders(test[1]))]
    ELSE [raised |-> "", headers |-> headers]

\* on_produce_attach_test_headers(sender, headers=headers) on path p.
on_produce_attach_test_headers(p, headers) ==
    /\ LET test == current_test(current_test_stack, p)
           res == attach_test_headers(test, headers)
       IN produced' = [path |-> p, test |-> test, headers_in |-> headers,
                       headers_out |-> res.headers, raised |-> res.raised,
                       called |-> TRUE]
    /\ UNCHANGED <<current_test_stack, stream_current_test, stream_event,
                   stream_pc, stack_ops>>

NotProduced ==
    [path |-> 0, test |-> None, headers_in |-> None, headers_out |-> None,
     raised |-> "", called |-> FALSE]

InitContext ==
    /\ current_test_stack = [p \in Paths |-> <<>>]
    /\ stream_current_test = [s \in Streams |-> None]
    /\ stream_event = [s \in Streams |-> None]
    /\ stream_pc = [s \in Streams |-> "idle"]
    /\ stack_ops = [s \in Streams |-> NoOps]
    /\ produced = NotProduced

----------------------------------------------------------------------------
(* Case registration: LiveCheck.case(...)(cls).                            *)

\* A signal object as registration sees it.
SignalObj(name, index) == [name |-> name, index |-> index]

\* The attribute name of the i-th annotated field.
AttrName(i) == "f" \o ToString(i)

\* What a class declares for one annotated field: a field whose type is not
\* a signal, a signal field with no class attribute, or a signal field for
\* which the class already supplies a signal object.
FieldKinds == {"plain", "signal", "supplied"}

Field(i, kind) ==
    [attr      |-> AttrName(i),
     is_signal |-> kind # "plain",
     value     |-> IF kind = "supplied"
                   THEN Some(SignalObj(AttrName(i), -1))
                   ELSE None]

\* The annotated fields of a class, in declaration order.
FieldLists ==
    UNION {{[i \in 1..n |-> Field(i, k[i])] : k \in [1..n -> FieldKinds]}
           : n \in 0..MaxFields}

\* The name= argument of case() and the qualified name of the decorated
\* class.
Declarations ==
    {<<None, "__main__.Foo">>, <<None, "pkg.mod.Foo">>,
     <<Some("orders"), "__main__.Foo">>}

RECURSIVE SelectAttrs(_)
SelectAttrs(fields) ==
    IF fields = <<>> THEN <<>>
    ELSE (IF Head(fields).is_signal THEN <<Head(fields).attr>> ELSE <<>>)
         \o SelectAttrs(Tail(fields))

\* _extract_signals: the names of the fields annotated with a signal type,
\* in the order of the annotations.
_extract_signals(fields) == SelectAttrs(fields)

\* getattr(case_cls, attr_name, None)
GetAttr(fields, attr) ==
    LET hit == {i \in DOMAIN fields : fields[i].attr = attr}
    IN IF hit = {} THEN None ELSE fields[CHOOSE i \in hit : TRUE].value

\* setattr(case_cls, attr_name, v)
SetAttr(fields, attr, v) ==
    [i \in DOMAIN fields |->
        IF fields[i].attr = attr THEN [fields[i] EXCEPT !.value = Some(v)]
        ELSE fields[i]]

\* A mutation of AssignSignals: enumerate() indices used as they are (from 0).
RECURSIVE AssignSignals_zero_based(_, _, _, _)
AssignSignals_zero_based(signal_names, i, fields, signals) ==
    IF i >= Len(signal_names) THEN [fields |-> fields, signals |-> signals]
    ELSE LET attr_name == signal_names[i + 1]
             signal == GetAttr(fields, attr_name)
         IN IF signal = None
            THEN LET new == SignalObj(attr_name, i)
                 IN AssignSignals_zero_based(signal_names, i + 1,
                        SetAttr(fields, attr_name, new), Append(signals, new))
            ELSE AssignSignals_zero_based(signal_names, i + 1,
                        SetAttr(fields, attr_name,
                                [signal[1] EXCEPT !.index = i]),
                        signals)

\* The loop of _inner over enumerate(signal_names), from iteration i (0-based):
\* the class attributes and the signals list it ends with.
RECURSIVE AssignSignals(_, _, _, _)
AssignSignals(signal_names, i, fields, signals) ==
    IF i >= Len(signal_names) THEN [fields |-> fields, signals |-> signals]
    ELSE LET attr_name == signal_names[i + 1]
             signal == GetAttr(fields, attr_name)
         IN IF signal = None
            THEN LET new == SignalObj(attr_name, i + 1)
                 IN AssignSignals(signal_names, i + 1,
                        SetAttr(fields, attr_name, new), Append(signals, new))
            ELSE AssignSignals(signal_names, i + 1,
                        SetAttr(fields, attr_name,
                                [signal[1] EXCEPT !.index = i + 1]),
                        signals)

\* name or qualname(cls)
NameOr(name, qualname) == IF Truthy(name) THEN name[1] ELSE qualname

\* The case object _inner builds: its name, the attributes of its class and
\* its signals list.
NewCase(name, assigned) ==
    [name |-> name, fields |-> assigned.fields, signals |-> assigned.signals]

\* A mutation of add_case: a name that is registered keeps its case.
add_case_keeps_first(registry, case) ==
    [n \in DOMAIN registry \cup {case.name} |->
        IF n \in DOMAIN registry THEN registry[n] ELSE case]

\* add_case: self.cases[case.name] = case
add_case(registry, case) ==
    [n \in DOMAIN registry \cup {case.name} |->
        IF n = case.name THEN case ELSE registry[n]]

\* case(name=name)(cls) for a class with the given qualified name and fields.
RegisterCase(name, qualname, fields) ==
    LET assigned == AssignSignals(_extract_signals(fields), 0, fields, <<>>)
        res == _prepare_case_name(conf_origin, NameOr(name, qualname))
    IN /\ registered' = [given |-> NameOr(name, qualname),
                         raised |-> res.raised, name |-> res.value,
                         cls |-> IF res.raised = "" THEN Some(fields)
                                 ELSE None,
                         replaced |-> res.raised = ""
                                      /\ res.value \in DOMAIN cases]
       /\ cases' = IF res.raised # "" THEN cases
                   ELSE add_case(cases, NewCase(res.value, assigned))
       /\ UNCHANGED <<conf_origin, prepared>>

\* A call of _prepare_case_name on the application.
PrepareCaseName(name) ==
    /\ prepared' = [name |-> name, result |-> _prepare_case_name(conf_origin, name)]
    /\ UNCHANGED <<conf_origin, cases, registered>>

NoCall == [name |-> "", result |-> Returned("")]
NoRegistration ==
    [given |-> "", raised |-> "", name |-> "", cls |-> None,
     replaced |-> FALSE]

InitRegistry ==
    /\ cases = <<>>
    /\ prepared = NoCall
    /\ registered = NoRegistration

----------------------------------------------------------------------------
(* Channels: the bus and the pending tests, each one ordered partition.    *)

SignalEvent(test_id, case_name, signal_name, key, value) ==
    [test_id |-> test_id, case_name |-> case_name, signal_name |-> signal_name,
     key |-> key, value |-> value]

\* Case names that test executions carry: a registered case under its
\* placeholder name, and a case the registry does not hold.
TestCaseNames == {"__main__.Foo", "gone.Case"}

\* The case class registered before the application starts.
FooFields == <<[attr |-> "persisted", is_signal |-> TRUE, value |-> None]>>

StartedRegistry ==
    add_case(<<>>, NewCase("pkg.mod.Foo",
                 AssignSignals(_extract_signals(FooFields), 0, FooFields, <<>>)))

\* An instrumented stage that the data of a triggered test flows through
\* sends a signal event of the test's case to the bus, keyed by the test id.
EmitSignal(n) ==
    /\ Len(emitted) < MaxEvents
    /\ n <= Len(sent)
    /\ LET offset == Len(emitted) + 1
           msg == [offset |-> offset, key |-> TestId(n),
                   value |-> SignalEvent(TestId(n), sent[n].value.case_name,
                                         "persisted", TestId(n), offset)]
       IN /\ bus' = Append(bus, msg)
          /\ emitted' = Append(emitted, msg)
    /\ UNCHANGED <<pending_tests, sent, busVars, testVars, _resolved_signals>>

\* A producer sends the next test execution to the pending-tests channel.
SendTest(case_name) ==
    /\ Len(sent) < MaxTests
    /\ LET id == TestId(Len(sent) + 1)
           msg == [key |-> id, value |-> TestExecution(id, case_name)]
       IN /\ pending_tests' = Append(pending_tests, msg)
          /\ sent' = Append(sent, msg)
    /\ UNCHANGED <<bus, emitted, busVars, testVars, _resolved_signals>>

----------------------------------------------------------------------------
(* The signal resolver of a case: Case.resolve_signal and Signal.wait.     *)

\* The key a signal event is resolved and awaited under.
IndexKey(test_id, signal_name, key) == <<test_id, signal_name, key>>

\* The key the body of a test waits on.
WaitKey(test) == IndexKey(test.id, "persisted", test.id)

Waiters(key) ==
    {e \in test_inflight : e.stage = "waiting" /\ WaitKey(e.test) = key}

\* notify: executions after the event arrived, waiters for its key woken.
NotifyWaiters(key, event) ==
    {IF e \in Waiters(key)
     THEN [e EXCEPT !.stage = "running", !.got = Some(event)]
     ELSE e : e \in test_inflight}

\* notify: the retention cache after the event arrived.
NotifyCache(key, event) ==
    IF Waiters(key) # {} THEN _resolved_signals
    ELSE [k \in DOMAIN _resolved_signals \cup {key} |->
             IF k = key THEN event ELSE _resolved_signals[k]]

----------------------------------------------------------------------------
(* The bus agent: concurrency = bus_concurrency actors run                 *)
(* _populate_signals over the bus channel.                                 *)

BusActors == 1..bus_concurrency

\* The state of an actor's loop: running, or ended by an error raised while
\* it handled the message `at` (a bus offset or a test id).
Alive == [error |-> "", at |-> ""]
Crashed(error, at) == [error |-> error, at |-> ToString(at)]

\* _install_bus_agent: the actors the agent starts.
_install_bus_agent == [a \in BusActors |-> Alive]

BusCallOf(a) == {c \in bus_inflight : c.actor = a}

\* The agents run as tasks of one event loop, and a task runs until it
\* suspends.  A resolver call is no suspension point, so from its start to its
\* return the loop runs no other task.
LoopFree == bus_inflight = {}

\* A mutation of Take: the newest message of the channel is taken.
Take_newest(channel) ==
    [msg |-> channel[Len(channel)],
     rest |-> SubSeq(channel, 1, Len(channel) - 1)]

\* async for key, value in stream.items(): the oldest message of the channel.
Take(channel) == [msg |-> Head(channel), rest |-> Tail(channel)]

\* A mutation of BusActorReady: the resolver call is scheduled, not awaited.
BusActorReady_not_awaited(a) == bus_crashed[a] = Alive

\* An actor takes its next message only when its loop is alive and the
\* resolver call it awaits has returned.
BusActorReady(a) == bus_crashed[a] = Alive /\ BusCallOf(a) = {}

\* The channel hands its next message to one of the actors waiting for it.
\* The actors run the same code and differ in nothing but their number, so
\* the lowest-numbered waiting actor stands for any of them.
BusTakes(a) ==
    /\ BusActorReady(a)
    /\ \A b \in BusActors : BusActorReady(b) => a <= b

\* A mutation of _populate_signals: a missing case is skipped over with the
\* resolver of some registered case.
_populate_signals_default_case(a) ==
    /\ LoopFree
    /\ BusTakes(a)
    /\ bus # <<>>
    /\ LET msg == Take(bus).msg
           name == _prepare_case_name(conf_origin, msg.value.case_name)
       IN /\ bus' = Take(bus).rest
          /\ IF name.raised # ""
             THEN /\ bus_crashed' = [bus_crashed EXCEPT ![a] =
                                     Crashed(name.raised, msg.offset)]
                  /\ UNCHANGED <<bus_inflight, resolver_called>>
             ELSE /\ bus_inflight' = bus_inflight \cup
                         {[actor |-> a, offset |-> msg.offset, key |-> msg.key,
                           event |-> [msg.value EXCEPT !.case_name = name.value]]}
                  /\ resolver_called' = resolver_called \cup {msg.offset}
                  /\ UNCHANGED bus_crashed
    /\ UNCHANGED <<pending_tests, emitted, sent, resolver_returned, testVars,
                   _resolved_signals>>

\* A mutation of _populate_signals: the case is looked up under the name the
\* event carries.
_populate_signals_raw_name(a) ==
    /\ LoopFree
    /\ BusTakes(a)
    /\ bus # <<>>
    /\ LET msg == Take(bus).msg
           name == Returned(msg.value.case_name)
       IN /\ bus' = Take(bus).rest
          /\ IF name.value \notin DOMAIN cases
             THEN /\ bus_crashed' = [bus_crashed EXCEPT ![a] =
                                     Crashed("KeyError", msg.offset)]
                  /\ UNCHANGED <<bus_inflight, resolver_called>>
             ELSE /\ bus_inflight' = bus_inflight \cup
                         {[actor |-> a, offset |-> msg.offset, key |-> msg.key,
                           event |-> [msg.value EXCEPT !.case_name = name.value]]}
                  /\ resolver_called' = resolver_called \cup {msg.offset}
                  /\ UNCHANGED bus_crashed
    /\ UNCHANGED <<pending_tests, emitted, sent, resolver_returned, testVars,
                   _resolved_signals>>

\* _populate_signals, from taking the next (test_id, event) to the call of
\* case.resolve_signal(test_id, event).
_populate_signals(a) ==
    /\ LoopFree
    /\ BusTakes(a)
    /\ bus # <<>>
    /\ LET msg == Take(bus).msg
           name == _prepare_case_name(conf_origin, msg.value.case_name)
       IN /\ bus' = Take(bus).rest
          /\ IF name.raised # ""
             THEN /\ bus_crashed' = [bus_crashed EXCEPT ![a] =
                                     Crashed(name.raised, msg.offset)]
                  /\ UNCHANGED <<bus_inflight, resolver_called>>
             ELSE IF name.value \notin DOMAIN cases
             THEN /\ bus_crashed' = [bus_crashed EXCEPT ![a] =
                                     Crashed("KeyError", msg.offset)]
                  /\ UNCHANGED <<bus_inflight, resolver_called>>
             ELSE /\ bus_inflight' = bus_inflight \cup
                         {[actor |-> a, offset |-> msg.offset, key |-> msg.key,
                           event |-> [msg.value EXCEPT !.case_name = name.value]]}
                  /\ resolver_called' = resolver_called \cup {msg.offset}
                  /\ UNCHANGED bus_crashed
    /\ UNCHANGED <<pending_tests, emitted, sent, resolver_returned, testVars,
                   _resolved_signals>>

\* A mutation of resolve_signal_returns: the awaited call returns without
\* the event having reached the resolver.
resolve_signal_returns_dropped(a) ==
    /\ \E c \in BusCallOf(a) :
          /\ bus_inflight' = bus_inflight \ {c}
          /\ resolver_returned' = resolver_returned \cup {c.offset}
          /\ UNCHANGED <<test_inflight, _resolved_signals>>
    /\ UNCHANGED <<chanVars, bus_crashed, resolver_called, test_crashed,
                   executed, outcome>>

\* A mutation of resolve_signal_returns: the event is handed to every
\* execution that has waited on its key, consumed waiters included.
resolve_signal_returns_rewakes(a) ==
    /\ \E c \in BusCallOf(a) :
          LET key == IndexKey(c.key, c.event.signal_name, c.event.key)
          IN /\ bus_inflight' = bus_inflight \ {c}
             /\ resolver_returned' = resolver_returned \cup {c.offset}
             /\ test_inflight' =
                    {IF e.waited /\ WaitKey(e.test) = key
                     THEN [e EXCEPT !.stage = "running", !.got = Some(c.event)]
                     ELSE e : e \in test_inflight}
             /\ _resolved_signals' = NotifyCache(key, c.event)
    /\ UNCHANGED <<chanVars, bus_crashed, resolver_called, test_crashed,
                   executed, outcome>>

\* await case.resolve_signal(test_id, event) returns: the resolver has been
\* notified, and the actor goes back to the channel.
resolve_signal_returns(a) ==
    /\ \E c \in BusCallOf(a) :
          LET key == IndexKey(c.key, c.event.signal_name, c.event.key)
          IN /\ bus_inflight' = bus_inflight \ {c}
             /\ resolver_returned' = resolver_returned \cup {c.offset}
             /\ test_inflight' = NotifyWaiters(key, c.event)
             /\ _resolved_signals' = NotifyCache(key, c.event)
    /\ UNCHANGED <<chanVars, bus_crashed, resolver_called, test_crashed,
                   executed, outcome>>

----------------------------------------------------------------------------
(* The test agent: concurrency = test_concurrency actors run               *)
(* _execute_tests over the pending-tests channel.                          *)

TestActors == 1..test_concurrency

\* _install_test_execution_agent: the actors the agent starts.
_install_test_execution_agent == [a \in TestActors |-> Alive]

TestCallOf(a) == {e \in test_inflight : e.actor = a}

\* A mutation of TestActorReady: case.execute is scheduled, not awaited.
TestActorReady_not_awaited(a) == test_crashed[a] = Alive

\* An actor takes its next message only when its loop is alive and the
\* case.execute call it awaits has ended.
TestActorReady(a) == test_crashed[a] = Alive /\ TestCallOf(a) = {}

\* As BusTakes, for the actors of the test agent.
TestTakes(a) ==
    /\ TestActorReady(a)
    /\ \A b \in TestActors : TestActorReady(b) => a <= b

\* A mutation of Catches: the except clause names the lookup's error.
Catches_lookup_errors(exc) == exc = "KeyError"

\* A mutation of Catches: no except clause.
Catches_nothing(exc) == FALSE

\* except LiveCheckError: pass
Catches(exc) == exc = "LiveCheckError"

\* A mutation of execute_exits: the path is left as it is when the body
\* raised.
execute_exits_on_success(stack, p, exc) ==
    IF exc = "" THEN Pop(stack, p) ELSE stack

\* case.execute(test) begins: the test becomes the current test of the
\* actor's path.
execute_enters(stack, p, test) == Push(stack, p, test)

\* case.execute(test) ends, with the exception exc or with none: the test is
\* popped from the actor's path.
execute_exits(stack, p, exc) == Pop(stack, p)

\* _execute_tests, from taking the next (test_id, test) to the call of
\* case.execute(test).
_execute_tests(a) ==
    /\ LoopFree
    /\ TestTakes(a)
    /\ pending_tests # <<>>
    /\ LET msg == Take(pending_tests).msg
           name == _prepare_case_name(conf_origin, msg.value.case_name)
       IN /\ pending_tests' = Take(pending_tests).rest
          /\ IF name.raised # ""
             THEN /\ test_crashed' = [test_crashed EXCEPT ![a] =
                                      Crashed(name.raised, msg.value.id)]
                  /\ UNCHANGED <<test_inflight, executed, current_test_stack>>
             ELSE IF name.value \notin DOMAIN cases
             THEN /\ test_crashed' = [test_crashed EXCEPT ![a] =
                                      Crashed("KeyError", msg.value.id)]
                  /\ UNCHANGED <<test_inflight, executed, current_test_stack>>
             ELSE /\ test_inflight' = test_inflight \cup
                         {[actor |-> a, stage |-> "running", waited |-> FALSE,
                           suspended |-> FALSE, got |-> None,
                           test |-> [msg.value EXCEPT !.case_name = name.value]]}
                  /\ executed' = executed \cup {msg.value.id}
                  /\ current_test_stack' =
                         execute_enters(current_test_stack, ActorPath(a),
                             [msg.value EXCEPT !.case_name = name.value])
                  /\ UNCHANGED test_crashed
    /\ UNCHANGED <<bus, emitted, sent, busVars, outcome, _resolved_signals>>

\* The case body calls wait on its signal: the event is returned from the
\* retention cache when it is there, and the body is suspended otherwise.
CaseWait(a) ==
    /\ LoopFree
    /\ \E e \in TestCallOf(a) :
          /\ e.stage = "running"
          /\ ~e.waited
          /\ test_inflight' = (test_inflight \ {e}) \cup
                {IF WaitKey(e.test) \in DOMAIN _resolved_signals
                 THEN [e EXCEPT !.waited = TRUE,
                                !.got = Some(_resolved_signals[WaitKey(e.test)])]
                 ELSE [e EXCEPT !.waited = TRUE, !.stage = "waiting",
                                !.suspended = TRUE]}
    /\ UNCHANGED <<chanVars, busVars, test_crashed, executed, outcome,
                   _resolved_signals>>

\* await case.execute(test) ends with the exception exc ("" when the body
\* returned): the execution's outcome is recorded, and the exception meets
\* the except clause of _execute_tests.
ExecuteEnds(a, e, exc, how) ==
    /\ LoopFree
    /\ outcome' = [outcome EXCEPT ![e.test.id] =
           [result |-> IF exc = "" THEN "pass" ELSE "fail", how |-> how,
            suspended |-> e.suspended, got |-> e.got]]
    /\ test_inflight' = test_inflight \ {e}
    /\ current_test_stack' = execute_exits(current_test_stack, ActorPath(a), exc)
    /\ test_crashed' = IF exc = "" \/ Catches(exc) THEN test_crashed
                       ELSE [test_crashed EXCEPT ![a] = Crashed(exc, e.test.id)]
    /\ UNCHANGED <<chanVars, busVars, executed, _resolved_signals>>

\* The case body returns, having got the event it waited for.
CaseReturns(a) ==
    \E e \in TestCallOf(a) :
        /\ e.stage = "running"
        /\ e.waited
        /\ ExecuteEnds(a, e, "", "returned")

\* The case body raises a test failure before it waits for a signal.
CaseFails(a) ==
    \E e \in TestCallOf(a) :
        /\ e.stage = "running"
        /\ ~e.waited
        /\ ExecuteEnds(a, e, "LiveCheckError", "raised")

\* The timeout of the wait elapses before any event woke the body.
CaseWaitTimesOut(a) ==
    \E e \in TestCallOf(a) :
        /\ e.stage = "waiting"
        /\ ExecuteEnds(a, e, "LiveCheckError", "timeout")

NotEnded == [result |-> "", how |-> "", suspended |-> FALSE, got |-> None]

InitDispatch ==
    /\ bus = <<>>
    /\ pending_tests = <<>>
    /\ emitted = <<>>
    /\ sent = <<>>
    /\ bus_inflight = {}
    /\ bus_crashed = _install_bus_agent
    /\ test_inflight = {}
    /\ test_crashed = _install_test_execution_agent
    /\ _resolved_signals = <<>>
    /\ resolver_called = {}
    /\ resolver_returned = {}
    /\ executed = {}
    /\ outcome = [n \in {TestId(i) : i \in 1..MaxTests} |-> NotEnded]

----------------------------------------------------------------------------
(* Reports: LiveCheck.post_report and the reports topic.                   *)

\* A TestReport: the test it is of (None when it has none) and its state.
TestReport(test, state) == [test |-> test, state |-> state]

\* Reports handed to post_report.
Reports ==
    {TestReport(t, st) : t \in {None} \cup {Some(x) : x \in Tests},
                         st \in {"pass", "fail"}}

\* post_report(report): the key is the id of the report's test, or None, and
\* the report is sent to the reports topic.
post_report(report) ==
    /\ Len(reports) < MaxReports
    /\ LET key == IF report.test # None THEN Some(report.test[1].id) ELSE None
       IN reports' = Append(reports, [key |-> key, value |-> report])
    /\ UNCHANGED send_reports

\* __init__(send_reports=...): the class default is True, and an argument
\* that is not None replaces it.
InitReports(arg) ==
    /\ send_reports = (IF arg # None THEN arg[1] ELSE TRUE)
    /\ reports = <<>>

----------------------------------------------------------------------------
(* Specifications.                                                         *)

\* The running application: producers, the bus agent and the test agent.
Init ==
    /\ conf_origin = Some("pkg.mod")
    /\ cases = StartedRegistry
    /\ prepared = NoCall
    /\ registered = NoRegistration
    /\ InitContext
    /\ InitDispatch
    /\ InitReports(None)

Next ==
    \/ \E n \in 1..MaxTests :
          EmitSignal(n) /\ UNCHANGED <<regVars, ctxVars, repVars>>
    \/ \E c \in TestCaseNames :
          SendTest(c) /\ UNCHANGED <<regVars, ctxVars, repVars>>
    \/ \E a \in BusActors :
          _populate_signals(a) /\ UNCHANGED <<regVars, ctxVars, repVars>>
    \/ \E a \in BusActors :
          resolve_signal_returns(a) /\ UNCHANGED <<regVars, ctxVars, repVars>>
    \/ \E a \in TestActors :
          _execute_tests(a) /\ UNCHANGED <<regVars, streamVars, repVars>>
    \/ \E a \in TestActors :
          CaseWait(a) /\ UNCHANGED <<regVars, ctxVars, repVars>>
    \/ \E a \in TestActors :
          CaseReturns(a) /\ UNCHANGED <<regVars, streamVars, repVars>>
    \/ \E a \in TestActors :
          CaseFails(a) /\ UNCHANGED <<regVars, streamVars, repVars>>
    \/ \E a \in TestActors :
          CaseWaitTimesOut(a) /\ UNCHANGED <<regVars, streamVars, repVars>>

Spec == Init /\ [][Next]_vars

\* The event loop runs every task that can run: a resolver call that was
\* made returns, and the timer of a wait that nothing has woken fires.
LoopFairness ==
    /\ \A a \in BusActors :
          WF_vars(resolve_signal_returns(a)
                  /\ UNCHANGED <<regVars, ctxVars, repVars>>)
    /\ \A a \in TestActors :
          WF_vars(CaseWaitTimesOut(a)
                  /\ UNCHANGED <<regVars, streamVars, repVars>>)

SpecLive == Spec /\ LoopFairness

\* The registry after case()(Foo) for a class Foo of the main module, under
\* the origin the application is configured with.
RoutedRegistry(origin) ==
    add_case(<<>>,
        NewCase(_prepare_case_name(origin, NameOr(None, "__main__.Foo")).value,
                AssignSignals(_extract_signals(FooFields), 0, FooFields, <<>>)))

\* The names messages carry for that case: the placeholder name, and the
\* name it is registered under.
RoutedCaseNames == {"__main__.Foo", conf_origin[1] \o ".Foo"}

\* The running application, its case registered under a placeholder name.
InitRoute ==
    /\ conf_origin \in {Some("pkg.mod"), Some("app")}
    /\ cases = RoutedRegistry(conf_origin)
    /\ prepared = NoCall
    /\ registered = NoRegistration
    /\ InitContext
    /\ InitDispatch
    /\ InitReports(None)

NextRoute ==
    \/ \E n \in 1..MaxTests :
          EmitSignal(n) /\ UNCHANGED <<regVars, ctxVars, repVars>>
    \/ \E c \in RoutedCaseNames :
          SendTest(c) /\ UNCHANGED <<regVars, ctxVars, repVars>>
    \/ \E a \in BusActors :
          _populate_signals(a) /\ UNCHANGED <<regVars, ctxVars, repVars>>
    \/ \E a \in BusActors :
          resolve_signal_returns(a) /\ UNCHANGED <<regVars, ctxVars, repVars>>
    \/ \E a \in TestActors :
          _execute_tests(a) /\ UNCHANGED <<regVars, streamVars, repVars>>
    \/ \E a \in TestActors :
          CaseWait(a) /\ UNCHANGED <<regVars, ctxVars, repVars>>
    \/ \E a \in TestActors :
          CaseReturns(a) /\ UNCHANGED <<regVars, streamVars, repVars>>
    \/ \E a \in TestActors :
          CaseFails(a) /\ UNCHANGED <<regVars, streamVars, repVars>>
    \/ \E a \in TestActors :
          CaseWaitTimesOut(a) /\ UNCHANGED <<regVars, streamVars, repVars>>

SpecRoute == InitRoute /\ [][NextRoute]_vars

\* Streams and producers of an instrumented application.
InitStreams ==
    /\ conf_origin = None
    /\ cases = <<>>
    /\ prepared = NoCall
    /\ registered = NoRegistration
    /\ InitContext
    /\ InitDispatch
    /\ InitReports(None)

NextStreams ==
    \/ \E s \in Streams, h \in EventHeaders :
          on_stream_event_in(s, h) /\ UNCHANGED <<regVars, dispVars, repVars>>
    \/ \E s \in Streams :
          on_stream_event_out(s) /\ UNCHANGED <<regVars, dispVars, repVars>>
    \/ \E p \in Paths, h \in ProduceHeaders :
          on_produce_attach_test_headers(p, h) /\ UNCHANGED <<regVars, dispVars, repVars>>

SpecStreams == InitStreams /\ [][NextStreams]_vars

\* Registration of cases.
InitRegister ==
    /\ conf_origin \in {None, Some("pkg.mod")}
    /\ InitRegistry
    /\ InitContext
    /\ InitDispatch
    /\ InitReports(None)

NextRegister ==
    \E d \in Declarations, f \in FieldLists :
        RegisterCase(d[1], d[2], f) /\ UNCHANGED <<ctxVars, dispVars, repVars>>

SpecRegister == InitRegister /\ [][NextRegister]_vars

\* Name rewriting.
InitNames ==
    /\ conf_origin \in Origins
    /\ InitRegistry
    /\ InitContext
    /\ InitDispatch
    /\ InitReports(None)

NextNames ==
    \E n \in Names :
        PrepareCaseName(n) /\ UNCHANGED <<ctxVars, dispVars, repVars>>

SpecNames == InitNames /\ [][NextNames]_vars

\* Reports posted to an application constructed with any send_reports.
InitReporting ==
    /\ conf_origin = None
    /\ InitRegistry
    /\ InitContext
    /\ InitDispatch
    /\ \E arg \in {None, Some(TRUE), Some(FALSE)} : InitReports(arg)

NextReporting ==
    \E r \in Reports :
        post_report(r) /\ UNCHANGED <<regVars, ctxVars, dispVars>>

SpecReporting == InitReporting /\ [][NextReporting]_vars

----------------------------------------------------------------------------
(* Properties.                                                             *)

Range(f) == {f[i] : i \in DOMAIN f}

TestIds == {TestId(i) : i \in 1..MaxTests}

\* The emitted events whose resolver call has returned, for a resolver key.
NotifiedFor(key) ==
    {m \in Range(emitted) :
        /\ m.offset \in resolver_returned
        /\ IndexKey(m.key, m.value.signal_name, m.value.key) = key}

\* The event as the resolver got it: its case name rewritten.
AsResolved(m) ==
    [m.value EXCEPT !.case_name =
        _prepare_case_name(conf_origin, m.value.case_name).value]

FailsIn(t) == outcome[t].result = "" /\ outcome'[t].result = "fail"

\* C3: failure isolation.  In a step in which the execution of a test ends
\* with a test failure, no actor's loop ends, the actor that ran the test is
\* ready for its next request, and every other execution in flight stays as
\* it was.
C3_FailureIsolation ==
    [][\A t \in TestIds :
          FailsIn(t) =>
              /\ test_crashed' = test_crashed
              /\ \A e \in test_inflight :
                    IF e.test.id = t
                    THEN test_crashed'[e.actor] = Alive
                         /\ {x \in test_inflight' : x.actor = e.actor} = {}
                    ELSE e \in test_inflight']_vars

\* Test t1 has failed while test t2, taken by another actor, is in flight
\* with the event it waited for.
C3_Witness ==
    /\ outcome[TestId(1)].result = "fail"
    /\ \E e \in test_inflight :
          e.test.id = TestId(2) /\ e.actor = 2 /\ e.got # None

\* Whether a message names a case that is not in the registry.
NamesUnknownCase(case_name) ==
    LET name == _prepare_case_name(conf_origin, case_name)
    IN name.raised = "" /\ name.value \notin DOMAIN cases

\* C4: an unknown case is fatal and no test outcome.  For a message taken
\* from its channel that names a case the registry does not hold, the
\* KeyError of the lookup has ended the loop of an actor, neither the resolver
\* nor the case body was called for it, and it has no outcome.
C4_UnknownCaseFatal ==
    /\ \A m \in Range(emitted) :
          (m \notin Range(bus) /\ NamesUnknownCase(m.value.case_name)) =>
              /\ m.offset \notin resolver_called
              /\ \E a \in BusActors :
                    bus_crashed[a] = Crashed("KeyError", m.offset)
    /\ \A m \in Range(sent) :
          (m \notin Range(pending_tests) /\ NamesUnknownCase(m.value.case_name)) =>
              /\ m.value.id \notin executed
              /\ outcome[m.value.id] = NotEnded
              /\ \E a \in TestActors :
                    test_crashed[a] = Crashed("KeyError", m.value.id)

\* A bus actor and a test actor have each taken a message of an unknown case.
C4_Witness ==
    /\ \E a \in BusActors : bus_crashed[a].error = "KeyError"
    /\ \E a \in TestActors : test_crashed[a].error = "KeyError"

\* C5: a message produced with a header list while test X is the current
\* test has, after the hook, its own headers first, unchanged and in their
\* order, followed by X's headers as bytes, from which X is read back.
C5_ActiveContextStamped ==
    (produced.called /\ produced.test # None /\ produced.headers_in # None) =>
        /\ produced.raised = ""
        /\ produced.headers_out # None
        /\ LET before == produced.headers_in[1]
               after == produced.headers_out[1]
               added == SubSeq(after, Len(before) + 1, Len(after))
           IN /\ Len(after) = Len(before) + Len(as_headers(produced.test[1]))
              /\ SubSeq(after, 1, Len(before)) = before
              /\ \A i \in DOMAIN added : added[i][2][1] = "bytes"
              /\ from_headers(added) = produced.test

\* A message with two headers of its own was produced under a test.
C5_Witness ==
    /\ produced.called
    /\ produced.test # None
    /\ produced.headers_in = Some(<<OtherHeader, OtherHeader2>>)
    /\ produced.raised = ""

\* C6: a message produced while there is no current test keeps the header
\* list it had, None included, and the hook raises nothing.
C6_NoContextUntouched ==
    (produced.called /\ produced.test = None) =>
        /\ produced.raised = ""
        /\ produced.headers_out = produced.headers_in

\* A message without a header list was produced with no current test.
C6_Witness ==
    /\ produced.called
    /\ produced.test = None
    /\ produced.headers_in = None

\* Whether the event a stream is at carries a test identity.
CarriesTest(s) ==
    stream_event[s] # None /\ from_headers(stream_event[s][1]) # None

\* C7: between the in and out callbacks of an event there has been one push
\* and no pop if the event carries a test identity and neither otherwise;
\* after its out callback there has been one push and one pop, or neither,
\* and the depth of the stack is what it was before the event.
C7_PushPopBalanced ==
    \A s \in Streams :
        LET n == IF CarriesTest(s) THEN 1 ELSE 0
            depth == Len(current_test_stack[StreamPath(s)])
        IN /\ stream_pc[s] = "processing" =>
                 /\ stack_ops[s].push = n /\ stack_ops[s].pop = 0
                 /\ depth = stack_ops[s].depth_before + n
           /\ stream_pc[s] = "done" =>
                 /\ stack_ops[s].push = n /\ stack_ops[s].pop = n
                 /\ depth = stack_ops[s].depth_before

\* A stream is through an event that carried a test identity, and another
\* stream is through one that carried none.
C7_Witness ==
    \E s, r \in Streams :
        /\ stream_pc[s] = "done" /\ CarriesTest(s) /\ stack_ops[s].pop = 1
        /\ stream_pc[r] = "done" /\ ~CarriesTest(r) /\ stack_ops[r].pop = 0

SignalRank(fields, i) == Cardinality({j \in 1..i : fields[j].is_signal})

\* C9: in every registered case the k-th field annotated as a signal holds
\* a signal whose index is k, whether registration created the signal or the
\* class supplied it.
C9_SignalIndices ==
    \A name \in DOMAIN cases :
        LET fields == cases[name].fields
        IN \A i \in DOMAIN fields :
              fields[i].is_signal =>
                  /\ fields[i].value # None
                  /\ fields[i].value[1].index = SignalRank(fields, i)

\* A case is registered whose first signal was created by registration and
\* whose second signal was supplied by its class.
C9_Witness ==
    \E name \in DOMAIN cases :
        LET c == cases[name]
        IN /\ Len(c.fields) = 2
           /\ c.fields[1].is_signal /\ c.fields[2].is_signal
           /\ c.signals = <<c.fields[1].value[1]>>
           /\ c.fields[2].value[1].index = 2

\* Whether a name starts with the placeholder prefix.
HasPlaceholder(name) == Len(name) >= 9 /\ SubSeq(name, 1, 9) = "__main__."

\* C10: name rewriting.  A name that starts with '__main__.' resolves to the
\* origin, a dot and what follows the prefix when an origin is configured,
\* and fails when none is; any other name is returned as it is.
C10_NameRewriting ==
    prepared # NoCall =>
        LET name == prepared.name
            res == prepared.result
        IN IF HasPlaceholder(name)
           THEN IF Truthy(conf_origin)
                THEN res = Returned(conf_origin[1] \o "."
                                    \o SubSeq(name, 10, Len(name)))
                ELSE res.raised = "RuntimeError"
           ELSE res = Returned(name)

\* '__main__.Foo' has been resolved under origin 'pkg.mod'.
C10_Witness ==
    /\ conf_origin = Some("pkg.mod")
    /\ prepared.name = "__main__.Foo"
    /\ prepared.result = Returned("pkg.mod.Foo")

\* C11: a report is on the reports topic only if send_reports is true, and
\* the key of every report message is the id of the report's test, or None
\* when the report has no test.
C11_ReportsOnlyWhenEnabled ==
    /\ reports # <<>> => send_reports
    /\ \A i \in DOMAIN reports :
          reports[i].key =
              (IF reports[i].value.test = None THEN None
               ELSE Some(reports[i].value.test[1].id))

\* The tests whose wait has returned the event of a bus message.
ResolvedBy(m) ==
    {t \in TestIds :
        \/ \E e \in test_inflight :
              e.test.id = t /\ e.got = Some(AsResolved(m))
        \/ outcome[t].got = Some(AsResolved(m))}

\* C12: at most one waiter resolves an event, and a later notify for the key
\* of a consumed waiter is accepted and leaves the waiter alone.  In every
\* step, an execution whose wait has returned an event stays as it is or ends
\* with that event as its result, an outcome once recorded does not change,
\* the return of a resolver call ends no bus actor, and afterwards no event
\* is the result of the waits of two tests.
C12_SingleResolution ==
    [][/\ \A e \in test_inflight :
             e.got # None =>
                 \/ e \in test_inflight'
                 \/ /\ \A x \in test_inflight' : x.test.id # e.test.id
                    /\ outcome'[e.test.id].result = "pass"
                    /\ outcome'[e.test.id].got = e.got
       /\ \A t \in TestIds :
             outcome[t].result # "" => outcome'[t] = outcome[t]
       /\ resolver_returned' # resolver_returned => bus_crashed' = bus_crashed
       /\ \A m \in Range(emitted') : Cardinality(ResolvedBy(m)') <= 1]_vars

\* A waiter that was suspended and woken with an event is still in flight
\* after a second resolver call for its key has returned.
C12_Witness ==
    \E e \in test_inflight :
        /\ e.suspended /\ e.got # None
        /\ Cardinality(NotifiedFor(WaitKey(e.test))) = 2

\* C13: a produce request without a header list, made while a test is the
\* current test, leaves the hook with the TypeError it raises, and the
\* request still has no header list.
C13_MissingHeadersFatal ==
    (produced.called /\ produced.test # None /\ produced.headers_in = None) =>
        /\ produced.raised = "TypeError"
        /\ produced.headers_out = None

\* A request without a header list was produced on the path of a stream that
\* is processing an event of a test.
C13_Witness ==
    /\ produced.called
    /\ produced.headers_in = None
    /\ produced.raised # ""
    /\ \E s \in Streams :
          /\ StreamPath(s) = produced.path
          /\ stream_pc[s] = "processing"
          /\ stream_current_test[s] = produced.test
          /\ produced.test # None

\* What a class declares: the names of its annotated fields, in order, and
\* which of them are signals.
Declared(fields) ==
    [i \in DOMAIN fields |-> <<fields[i].attr, fields[i].is_signal>>]

\* C14: a registration that succeeds leaves the registry with the names it
\* had and the registered name, the registered name bound to the case just
\* registered whether or not the name was bound before, and every other
\* name bound to the case it was bound to; a registration that fails leaves
\* the registry as it was; and every name is bound to a case of that name.
C14_ReRegistrationReplaces ==
    [][IF registered'.raised = ""
       THEN /\ DOMAIN cases' = DOMAIN cases \cup {registered'.name}
            /\ Declared(cases'[registered'.name].fields)
                   = Declared(registered'.cls[1])
            /\ \A n \in DOMAIN cases' : cases'[n].name = n
            /\ \A n \in DOMAIN cases \ {registered'.name} :
                   cases'[n] = cases[n]
       ELSE cases' = cases]_vars

\* A case has been registered under a name that was registered already, with
\* other fields than the case it replaced could have had, while another name is
\* registered too.
C14_Witness ==
    /\ registered.replaced
    /\ Len(registered.cls[1]) = 2
    /\ Cardinality(DOMAIN cases) = 2
    /\ \E n \in DOMAIN cases :
          n # registered.name /\ Len(cases[n].fields) = 1

Waiting(t) ==
    \E e \in test_inflight : e.test.id = t /\ e.stage = "waiting"

\* The wait of test t was woken by an event.
Woken(t) ==
    \/ \E e \in test_inflight : e.test.id = t /\ e.got # None
    \/ outcome[t].got # None

\* The execution of test t ended as failed by the timeout of its wait, and
\* the loop of no actor ended with it.
TimedOut(t) ==
    /\ outcome[t].result = "fail"
    /\ outcome[t].how = "timeout"
    /\ \A e \in test_inflight : e.test.id # t
    /\ \A a \in TestActors :
          \A error \in {"LiveCheckError", "KeyError", "RuntimeError"} :
              test_crashed[a] # Crashed(error, t)

\* C15: a suspended wait that no event wakes ends: the execution ends as
\* failed by the timeout, the test failure is caught, and the actor that ran
\* it is alive and back at its channel.  A test that timed out never has
\* another result and never ended an actor's loop.
C15_WaitTimesOut ==
    /\ \A t \in TestIds : Waiting(t) ~> (Woken(t) \/ TimedOut(t))
    /\ [](\A t \in TestIds : outcome[t].how = "timeout" => TimedOut(t))

\* The wait of test t1 has timed out with no event sent for it, and the
\* actor that ran it has taken test t2.
C15_Witness ==
    /\ TimedOut(TestId(1))
    /\ \A m \in Range(emitted) : m.key # TestId(1)
    /\ \E e \in TestCallOf(1) : e.test.id = TestId(2)

\* C18: the current test is local to a path.  After every step, the current
\* test on the path of a stream that is between its in and out callbacks is
\* the test of that stream's event, whatever the other streams have pushed
\* or popped since, the path of a stream that is not has no current test,
\* and the stack of a stream that took no step is as it was.
C18_PathLocal ==
    [][\A s \in Streams :
          /\ stream_pc'[s] = "processing" =>
                 current_test(current_test_stack', StreamPath(s))
                     = from_headers(stream_event'[s][1])
          /\ stream_pc'[s] # "processing" =>
                 current_test(current_test_stack', StreamPath(s)) = None
          /\ stream_pc'[s] = stream_pc[s] =>
                 current_test_stack'[StreamPath(s)]
                     = current_test_stack[StreamPath(s)]]_vars

\* Two streams took events of different tests, one of them is through its
\* out callback, and the other, still before its own, has its test as the
\* current test of its path.
C18_Witness ==
    \E s, r \in Streams :
        /\ s # r
        /\ stream_pc[s] = "done" /\ CarriesTest(s) /\ stack_ops[s].pop = 1
        /\ stream_pc[r] = "processing" /\ CarriesTest(r)
        /\ from_headers(stream_event[s][1]) # from_headers(stream_event[r][1])
        /\ current_test(current_test_stack, StreamPath(r))
               = from_headers(stream_event[r][1])

\* The names of the signals in a signals list, in order.
SignalNames(signals) == [k \in DOMAIN signals |-> signals[k].name]

\* C19: the signals list of every registered case names all the signal
\* fields its class declares, in the order of their declaration, those the
\* class supplied a signal object for included.
C19_AllSignalsListed ==
    \A name \in DOMAIN cases :
        SignalNames(cases[name].signals) = _extract_signals(cases[name].fields)

\* The key a case declared as Foo in the main module is to be stored under.
FooKey == conf_origin[1] \o "." \o "Foo"

\* C20: the case registered as '__main__.Foo' under origin O is stored under
\* 'O.Foo' and nowhere else; every signal event and test execution taken
\* from its channel that names '__main__.Foo' or 'O.Foo' has reached the
\* resolver, or the body, of the case stored under 'O.Foo'; and no actor's
\* loop has ended with a lookup error.
C20_SameNameResolution ==
    /\ DOMAIN cases = {FooKey}
    /\ cases[FooKey].name = FooKey
    /\ \A a \in BusActors : bus_crashed[a] = Alive
    /\ \A a \in TestActors : test_crashed[a] = Alive
    /\ \A m \in Range(emitted) :
          (m \notin Range(bus) /\ m.value.case_name \in {"__main__.Foo", FooKey})
              => m.offset \in resolver_called
    /\ \A c \in bus_inflight : cases[c.event.case_name].name = FooKey
    /\ \A m \in Range(sent) :
          (m \notin Range(pending_tests)
              /\ m.value.case_name \in {"__main__.Foo", FooKey})
              => m.value.id \in executed
    /\ \A e \in test_inflight : cases[e.test.case_name].name = FooKey

\* A test sent under the placeholder name and a test sent under the
\* registered name are both being executed, and the resolver has been called
\* for a signal event of each.
C20_Witness ==
    /\ sent # <<>>
    /\ {sent[i].value.case_name : i \in DOMAIN sent} = {"__main__.Foo", FooKey}
    /\ {e.test.id : e \in test_inflight} = {sent[i].value.id : i \in DOMAIN sent}
    /\ {m.value.case_name : m \in {x \in Range(emitted) :
                                      x.offset \in resolver_called}}
           = {"__main__.Foo", FooKey}

=============================================================================
